---- MODULE Spec2Model ----
(***************************************************************************)
(* Model of src/ffi/easy.rs: the Easy handle (new, setopt, perform,        *)
(* get_response_code, Drop), the ResponseBuilder and the three callback    *)
(* bridges curl_read_fn, curl_write_fn and curl_header_fn.                 *)
(*                                                                         *)
(* The native engine is the environment.  Each native call returns a       *)
(* result code chosen by the engine; a rejected curl_easy_setopt leaves    *)
(* the engine configuration as it was.  While curl_easy_perform runs the   *)
(* engine invokes the callbacks it has been configured with, passing the   *)
(* context pointers it has been configured with.                           *)
(***************************************************************************)
EXTENDS Integers, Sequences, FiniteSets, TLC

(***************************************************************************)
(* Bounds of the model.                                                    *)
(***************************************************************************)
MaxOps == 2        \* setopt, perform and get_response_code calls on the handle
MaxCallbacks == 2  \* bridge invocations the engine makes per transfer
MaxRejects == 1    \* configuration calls a valid handle's engine rejects

(***************************************************************************)
(* Native result codes (err.rs, consts.rs).                                *)
(***************************************************************************)
OK == 0
COULDNT_CONNECT == 7
OUT_OF_MEMORY == 27
ABORTED_BY_CALLBACK == 42
BAD_FUNCTION_ARGUMENT == 43
CURL_READFUNC_ABORT == 268435456

is_success(code) == code = OK

\* size * nmemb on size_t, a 64-bit word: the product wraps at 2^64 only.  The
\* sizes and counts of this model keep every product below 2^31, where the
\* word holds the product as it is.
SizeMul(size, nmemb) == size * nmemb

\* c_long as uint, both 64 bits wide: a value from 0 up is kept, a negative v
\* becomes 2^64 + v, which is written here as the pair of the wrap and v
LongAsUint(v) == IF v >= 0 THEN v ELSE <<"2^64 +", v>>

(***************************************************************************)
(* Pointers.  A context pointer is null, the address of the                *)
(* ResponseBuilder of perform call number id, the address of the Body      *)
(* passed to perform call number id, a pointer the caller supplied         *)
(* through setopt, or one of the C streams stdin and stdout, which are the *)
(* contexts of a freshly initialised engine.                               *)
(***************************************************************************)
NullPtr == [kind |-> "null", id |-> 0]
BuilderPtr(k) == [kind |-> "builder", id |-> k]
BodyPtr(k) == [kind |-> "body", id |-> k]
UserPtr == [kind |-> "user", id |-> 0]
StdinPtr == [kind |-> "file", id |-> 0]
StdoutPtr == [kind |-> "file", id |-> 1]

is_null(p) == p = NullPtr

FunctionOpts == {"READFUNCTION", "WRITEFUNCTION", "HEADERFUNCTION"}
DataOpts == {"READDATA", "WRITEDATA", "HEADERDATA"}
CallbackOpts == FunctionOpts \cup DataOpts
Opts == CallbackOpts \cup {"URL"}

\* the value a caller passes to setopt for each option
UserVal(option) ==
  IF option \in FunctionOpts THEN "user_fn"
  ELSE IF option \in DataOpts THEN UserPtr
  ELSE "url"

\* configuration of a freshly initialised engine: the read and write
\* functions are the engine's own, which fread from and fwrite to their
\* context as a FILE*, with stdin and stdout as contexts; there is no header
\* function and no header context
EngineDefaults ==
  [o \in CallbackOpts |->
     CASE o \in {"READFUNCTION", "WRITEFUNCTION"} -> "default_fn"
       [] o = "HEADERFUNCTION" -> "no_fn"
       [] o = "READDATA" -> StdinPtr
       [] o = "WRITEDATA" -> StdoutPtr
       [] OTHER -> NullPtr]

(***************************************************************************)
(* Data the engine and the body source hand to the bridges.                *)
(***************************************************************************)
Sizes == {1, 2}
Nmembs == {1}

\* header lines as the engine delivers them, one character per byte
HeaderLines ==
  { <<"A", ":", "x">>, <<"A", ":", "y">>, <<"H", "T">> }

NoPair == [some |-> FALSE, name |-> <<>>, val |-> <<>>]

RECURSIVE ColonAt(_, _)
ColonAt(line, i) ==
  IF i > Len(line) THEN 0
  ELSE IF line[i] = ":" THEN i
  ELSE ColonAt(line, i + 1)

\* header::parse: Some((name, value)) for a "name:value" line, None otherwise
parse(line) ==
  LET i == ColonAt(line, 1) IN
  IF i <= 1 THEN NoPair
  ELSE [some |-> TRUE, name |-> SubSeq(line, 1, i - 1),
        val |-> SubSeq(line, i + 1, Len(line))]

(***************************************************************************)
(* ResponseBuilder.                                                        *)
(***************************************************************************)
EmptyMap == [n \in {} |-> <<>>]

ResponseBuilder_new == [code |-> 0, hdrs |-> EmptyMap, body |-> <<>>]

NoBuilder == [code |-> 0 - 1, hdrs |-> EmptyMap, body |-> <<>>]

add_header(b, name, val) ==
  IF name \in DOMAIN b.hdrs
  THEN [b EXCEPT !.hdrs = [b.hdrs EXCEPT ![name] = Append(@, val)]]
  ELSE [b EXCEPT !.hdrs =
          [n \in DOMAIN b.hdrs \cup {name} |->
             IF n = name THEN <<val>> ELSE b.hdrs[n]]]

build(b) == [code |-> b.code, hdrs |-> b.hdrs, body |-> b.body]

(***************************************************************************)
(* Results seen by the caller.                                             *)
(***************************************************************************)
NoResponse == [code |-> 0 - 1, hdrs |-> EmptyMap, body |-> <<>>]
OkUnit(op) == [op |-> op, tag |-> "Ok", err |-> OK, val |-> 0, resp |-> NoResponse, has_resp |-> FALSE]
OkCode(op, v) == [op |-> op, tag |-> "Ok", err |-> OK, val |-> v, resp |-> NoResponse, has_resp |-> FALSE]
OkResponse(op, r) == [op |-> op, tag |-> "Ok", err |-> OK, val |-> 0, resp |-> r, has_resp |-> TRUE]
Err(op, e) == [op |-> op, tag |-> "Err", err |-> e, val |-> 0, resp |-> NoResponse, has_resp |-> FALSE]
NoResult == [op |-> "none", tag |-> "Ok", err |-> OK, val |-> 0, resp |-> NoResponse, has_resp |-> FALSE]

(***************************************************************************)
(* The native engine's side of the calls.                                  *)
(***************************************************************************)
NullHandle == "null"
ValidHandle == "valid"

\* result codes curl_easy_setopt can give
SetoptCodes(h) ==
  IF h = NullHandle THEN {BAD_FUNCTION_ARGUMENT} ELSE {OK, OUT_OF_MEMORY}

\* number of rejections in a sequence of result codes
Rejected(codes) == Cardinality({i \in DOMAIN codes : ~is_success(codes[i])})

\* result codes curl_easy_perform can give; a transfer whose read callback
\* returned CURL_READFUNC_ABORT is cancelled by the engine
PerformCodes(h, wasAborted) ==
  IF h = NullHandle THEN {BAD_FUNCTION_ARGUMENT}
  ELSE IF wasAborted THEN {ABORTED_BY_CALLBACK}
  ELSE {OK, COULDNT_CONNECT}

\* result codes curl_easy_getinfo can give
GetinfoCodes(h) ==
  IF h = NullHandle THEN {BAD_FUNCTION_ARGUMENT} ELSE {OK, BAD_FUNCTION_ARGUMENT}

\* values the engine reports for RESPONSE_CODE
StatusValues == {200}

\* curl_easy_setopt: the option is applied as a whole or not at all
\* (of the options, the model keeps the callback options' values)
curl_easy_setopt(cfg, option, val, code) ==
  IF is_success(code) /\ option \in DOMAIN cfg
  THEN [cfg EXCEPT ![option] = val] ELSE cfg

\* the buffer the engine passes to the k-th write callback of a transfer:
\* n bytes whose value alternates from one callback to the next
EngineBuffer(n, k) == [i \in 1..n |-> IF k % 2 = 0 THEN "0" ELSE "1"]

\* what Body::read can report for a buffer of n bytes
ReadOk(len) == [kind |-> "ok", len |-> len]
ReadEof == [kind |-> "eof", len |-> 0]
ReadFailure == [kind |-> "other", len |-> 0]
ReadOutcomes(n) == {ReadOk(len) : len \in 0..n} \cup {ReadEof, ReadFailure}
NoRead == [kind |-> "none", len |-> 0]

(***************************************************************************)
(* The callback bridges, as functions of their arguments and of the        *)
(* object the context pointer refers to.  Each gives the value returned    *)
(* and what it did: use_buf when the buffer was read or handed on, use_ctx *)
(* when the context was dereferenced.                                      *)
(***************************************************************************)
curl_read_fn_FailureIsEof(size, nmemb, body, outcome) ==
  IF is_null(body) THEN [ret |-> 0, use_buf |-> FALSE, use_ctx |-> FALSE]
  ELSE [ret |-> IF outcome.kind = "ok" THEN outcome.len ELSE 0,
        use_buf |-> TRUE, use_ctx |-> TRUE]

curl_read_fn_EofAborts(size, nmemb, body, outcome) ==
  IF is_null(body) THEN [ret |-> 0, use_buf |-> FALSE, use_ctx |-> FALSE]
  ELSE [ret |-> IF outcome.kind = "ok" THEN outcome.len ELSE CURL_READFUNC_ABORT,
        use_buf |-> TRUE, use_ctx |-> TRUE]

curl_read_fn_ReportsFullBuffer(size, nmemb, body, outcome) ==
  IF is_null(body) THEN [ret |-> 0, use_buf |-> FALSE, use_ctx |-> FALSE]
  ELSE [ret |-> IF outcome.kind = "ok" THEN SizeMul(size, nmemb)
                ELSE IF outcome.kind = "eof" THEN 0
                ELSE CURL_READFUNC_ABORT,
        use_buf |-> TRUE, use_ctx |-> TRUE]

curl_read_fn(size, nmemb, body, outcome) ==
  IF is_null(body) THEN [ret |-> 0, use_buf |-> FALSE, use_ctx |-> FALSE]
  ELSE [ret |-> IF outcome.kind = "ok" THEN outcome.len
                ELSE IF outcome.kind = "eof" THEN 0
                ELSE CURL_READFUNC_ABORT,
        use_buf |-> TRUE, use_ctx |-> TRUE]

\* p is the memory at the buffer pointer, b the builder resp refers to
curl_write_fn(p, size, nmemb, resp, b) ==
  IF ~is_null(resp)
  THEN [ret |-> SizeMul(size, nmemb),
        builder |-> [b EXCEPT !.body = @ \o SubSeq(p, 1, SizeMul(size, nmemb))],
        use_buf |-> TRUE, use_ctx |-> TRUE]
  ELSE [ret |-> SizeMul(size, nmemb), builder |-> b,
        use_buf |-> FALSE, use_ctx |-> FALSE]

curl_header_fn_UnparsedReturnsZero(p, size, nmemb, resp, b) ==
  LET vec == SubSeq(p, 1, SizeMul(size, nmemb))
      pair == parse(vec)
  IN [ret |-> IF pair.some THEN Len(vec) ELSE 0,
      builder |-> IF pair.some THEN add_header(b, pair.name, pair.val) ELSE b,
      use_buf |-> TRUE, use_ctx |-> pair.some]

\* the header bridge does not test resp: it dereferences it when the line parses
curl_header_fn(p, size, nmemb, resp, b) ==
  LET vec == SubSeq(p, 1, SizeMul(size, nmemb))
      pair == parse(vec)
  IN [ret |-> Len(vec),
      builder |-> IF pair.some THEN add_header(b, pair.name, pair.val) ELSE b,
      use_buf |-> TRUE, use_ctx |-> pair.some]

(***************************************************************************)
(* get_info_long, get_response_code and the end of perform, as functions   *)
(* of what the engine returned.                                            *)
(***************************************************************************)
\* v is what the read of the local in line 93 gives.  The local is declared
\* immutable with the value 0 (line 86) and the engine stores through a pointer
\* to it (line 87): the read gives the stored value or the declared 0,
\* depending on the build (LocalReads, below).
get_info_long(op, res, v) ==
  IF ~is_success(res) THEN Err(op, res) ELSE OkCode(op, v)

get_response_code_SwallowsFailure(op, res, v) ==
  LET r == get_info_long(op, res, v) IN
  IF r.tag = "Err" THEN OkCode(op, 0) ELSE OkCode(op, LongAsUint(r.val))

get_response_code(op, res, v) ==
  LET r == get_info_long(op, res, v) IN
  IF r.tag = "Err" THEN Err(op, r.err) ELSE OkCode(op, LongAsUint(r.val))

perform_finish_NoAbort(b, err, res, v) ==
  LET c == get_response_code("perform", res, v) IN
  IF c.tag = "Err" THEN Err("perform", c.err)
  ELSE OkResponse("perform", build([b EXCEPT !.code = c.val]))

\* lines 68-79: err is what curl_easy_perform returned; res is what
\* curl_easy_getinfo returns and v what get_info_long reads from its local, if
\* they are reached
perform_finish(b, err, res, v) ==
  IF ~is_success(err) THEN Err("perform", err)
  ELSE LET c == get_response_code("perform", res, v) IN
       IF c.tag = "Err" THEN Err("perform", c.err)
       ELSE OkResponse("perform", build([b EXCEPT !.code = c.val]))

(***************************************************************************)
(* State.                                                                  *)
(***************************************************************************)
VARIABLES
  curl,        \* Easy.curl: what curl_easy_init returned
  alive,       \* the Easy value has not been dropped
  cleanups,    \* number of curl_easy_cleanup calls made
  late,        \* a native call was made on the handle after cleanup
  eng,         \* the engine's configuration: callback option -> value
  pc,          \* "idle", "transfer" (inside curl_easy_perform), "crashed"
  ops,         \* number of setopt, perform and get_response_code calls made
  call,        \* number of perform calls started
  bodyArg,     \* the last perform call was given Some(body)
  builder,     \* the current call's ResponseBuilder
  writes,      \* bridge invocations made by the engine in this transfer
  headers,
  reads,
  readDone,    \* a read callback returned 0: the engine reads no more
  aborted,     \* a read callback returned CURL_READFUNC_ABORT
  result,      \* what the last finished operation returned to the caller
  native,      \* what the native calls of the last operation returned
  wireFailed,  \* options whose curl_easy_setopt inside perform was rejected
  wired,       \* the curl_easy_setopt calls the last perform call issued, in order
  chunks,      \* all bytes handed to the write bridge in this call, in order
  lastCb,      \* the last bridge invocation of this transfer
  readFailed,  \* the body source reported a failure other than end-of-stream
  eofSeen,     \* the body source reported end-of-stream
  readArgs,    \* the arguments of a read-bridge invocation made on its own
  rejects      \* configuration calls the engine of a valid handle has rejected

vars == <<curl, alive, cleanups, late, eng, pc, ops, call, bodyArg, builder,
          writes, headers, reads, readDone, aborted, result, native,
          wireFailed, wired, chunks, lastCb, readFailed, eofSeen, readArgs,
          rejects>>

NotCalled == 0 - 1
NoNative == [setopt |-> NotCalled, perform |-> NotCalled, getinfo |-> NotCalled,
             status |-> NotCalled]
NoCb == [fn |-> "none", ctx |-> NullPtr, kind |-> "none", ret |-> 0,
         use_buf |-> FALSE, use_ctx |-> FALSE]

\* no read-bridge invocation made on its own
NoArgs == [size |-> 0, nmemb |-> 0, body |-> NullPtr, outcome |-> NoRead]

\* the state after Easy::new, for the handles curl_easy_init may give and the
\* read-bridge arguments under study
Constructed(handles, args) ==
  /\ curl \in handles
  /\ readArgs \in args
  /\ alive = TRUE
  /\ cleanups = 0
  /\ late = FALSE
  /\ eng = EngineDefaults
  /\ pc = "idle"
  /\ ops = 0
  /\ call = 0
  /\ bodyArg = FALSE
  /\ builder = NoBuilder
  /\ writes = 0
  /\ headers = 0
  /\ reads = 0
  /\ readDone = FALSE
  /\ aborted = FALSE
  /\ result = NoResult
  /\ native = NoNative
  /\ wireFailed = {}
  /\ wired = <<>>
  /\ chunks = <<>>
  /\ lastCb = NoCb
  /\ readFailed = FALSE
  /\ eofSeen = FALSE
  /\ rejects = 0

\* Easy::new: curl_easy_init gives a handle or null; the result is stored unchecked
Init == Constructed({ValidHandle, NullHandle}, {NoArgs})

\* the engine's state inside one transfer
engineVars == <<writes, headers, reads, readDone, aborted, lastCb>>

\* the record of one perform call, kept until the next operation
recordVars == <<bodyArg, native, wireFailed, wired, chunks, readFailed, eofSeen>>

ForgetEngine ==
  /\ writes' = 0
  /\ headers' = 0
  /\ reads' = 0
  /\ readDone' = FALSE
  /\ aborted' = FALSE
  /\ lastCb' = NoCb

ForgetRecord ==
  /\ bodyArg' = FALSE
  /\ wireFailed' = {}
  /\ wired' = <<>>
  /\ chunks' = <<>>
  /\ readFailed' = FALSE
  /\ eofSeen' = FALSE

\* the engine of a valid handle rejects at most MaxRejects configuration calls
MayReject(codes) == curl = ValidHandle => rejects + Rejected(codes) <= MaxRejects
CountRejects(codes) == IF curl = ValidHandle THEN rejects + Rejected(codes) ELSE rejects

(***************************************************************************)
(* Easy::setopt                                                            *)
(***************************************************************************)
setopt(option, code) ==
  /\ pc = "idle"
  /\ alive
  /\ ops < MaxOps
  /\ MayReject(<<code>>)
  /\ ops' = ops + 1
  /\ rejects' = CountRejects(<<code>>)
  /\ eng' = curl_easy_setopt(eng, option, UserVal(option), code)
  /\ result' = IF is_success(code) THEN OkUnit("setopt") ELSE Err("setopt", code)
  /\ native' = [NoNative EXCEPT !.setopt = code]
  /\ late' = (late \/ cleanups > 0)
  /\ ForgetRecord
  /\ UNCHANGED <<curl, readArgs, alive, cleanups, pc, call, builder, engineVars>>

(***************************************************************************)
(* Easy::perform, lines 47-66: the builder, the two context pointers and   *)
(* the six configuration calls, whose results are not looked at.           *)
(***************************************************************************)
WireCalls_NoHeaderContext(body_p, resp_p) ==
  << <<"READFUNCTION", "curl_read_fn">>, <<"READDATA", body_p>>,
     <<"WRITEFUNCTION", "curl_write_fn">>, <<"WRITEDATA", resp_p>>,
     <<"HEADERFUNCTION", "curl_header_fn">> >>

WireCalls(body_p, resp_p) ==
  << <<"READFUNCTION", "curl_read_fn">>, <<"READDATA", body_p>>,
     <<"WRITEFUNCTION", "curl_write_fn">>, <<"WRITEDATA", resp_p>>,
     <<"HEADERFUNCTION", "curl_header_fn">>, <<"HEADERDATA", resp_p>> >>

RECURSIVE WireFrom(_, _, _, _)
WireFrom(cfg, calls, codes, i) ==
  IF i > Len(calls) THEN cfg
  ELSE WireFrom(curl_easy_setopt(cfg, calls[i][1], calls[i][2], codes[i]),
                calls, codes, i + 1)

perform_begin_KeepsBuilder(hasBody, codes) ==
  /\ pc = "idle"
  /\ alive
  /\ ops < MaxOps
  /\ MayReject(codes)
  /\ ops' = ops + 1
  /\ rejects' = CountRejects(codes)
  /\ LET resp_p == BuilderPtr(call + 1)
         body_p == IF hasBody THEN BodyPtr(call + 1) ELSE NullPtr
         calls == WireCalls(body_p, resp_p)
     IN /\ eng' = WireFrom(eng, calls, codes, 1)
        /\ wireFailed' = {calls[i][1] : i \in {j \in 1..Len(calls) : ~is_success(codes[j])}}
        /\ wired' = calls
  /\ call' = call + 1
  /\ bodyArg' = hasBody
  /\ builder' = IF result.has_resp
                THEN [result.resp EXCEPT !.code = 0]
                ELSE ResponseBuilder_new
  /\ pc' = "transfer"
  /\ result' = NoResult
  /\ native' = NoNative
  /\ chunks' = <<>>
  /\ readFailed' = FALSE
  /\ eofSeen' = FALSE
  /\ late' = (late \/ cleanups > 0)
  /\ ForgetEngine
  /\ UNCHANGED <<curl, readArgs, alive, cleanups>>

perform_begin(hasBody, codes) ==
  /\ pc = "idle"
  /\ alive
  /\ ops < MaxOps
  /\ MayReject(codes)
  /\ ops' = ops + 1
  /\ rejects' = CountRejects(codes)
  /\ LET resp_p == BuilderPtr(call + 1)
         body_p == IF hasBody THEN BodyPtr(call + 1) ELSE NullPtr
         calls == WireCalls(body_p, resp_p)
     IN /\ eng' = WireFrom(eng, calls, codes, 1)
        /\ wireFailed' = {calls[i][1] : i \in {j \in 1..Len(calls) : ~is_success(codes[j])}}
        /\ wired' = calls
  /\ call' = call + 1
  /\ bodyArg' = hasBody
  /\ builder' = ResponseBuilder_new
  /\ pc' = "transfer"
  /\ result' = NoResult
  /\ native' = NoNative
  /\ chunks' = <<>>
  /\ readFailed' = FALSE
  /\ eofSeen' = FALSE
  /\ late' = (late \/ cleanups > 0)
  /\ ForgetEngine
  /\ UNCHANGED <<curl, readArgs, alive, cleanups>>

(***************************************************************************)
(* Inside curl_easy_perform (line 68): the engine invokes the callbacks    *)
(* it is configured with, any number of times, with the contexts it is     *)
(* configured with.  A context that is neither null nor the address of an  *)
(* object of the current call is dangling: using it is undefined           *)
(* behaviour, whose outcomes are that the access lands in the current      *)
(* call's object (the slot was reused), lands elsewhere, or the process    *)
(* dies.                                                                   *)
(***************************************************************************)
EngineRunning ==
  /\ pc = "transfer"
  /\ curl = ValidHandle
  /\ ~aborted
  /\ writes + headers + reads < MaxCallbacks

LiveBuilder(p) == p = BuilderPtr(call)
LiveBody(p) == bodyArg /\ p = BodyPtr(call)

\* outcomes of using resp in the write and header bridges
BuilderUb(resp, deref) ==
  IF ~deref \/ LiveBuilder(resp) THEN {"none"}
  ELSE IF is_null(resp) \/ resp.kind = "file" THEN {"miss", "crash"}
  ELSE {"alias", "miss", "crash"}

\* outcomes of using body in the read bridge
BodyUb(body) ==
  IF is_null(body) \/ LiveBody(body) THEN {"none"} ELSE {"wild", "crash"}

\* outcomes of the engine's own fread and fwrite using ctx as a FILE*
FileUb(ctx) == IF ctx.kind = "file" THEN {"none"} ELSE {"wild", "crash"}

UbOutcomes == {"none", "alias", "miss", "wild", "crash"}

\* the process dies inside curl_easy_perform: nothing of the call remains
Crash ==
  /\ pc' = "crashed"
  /\ builder' = NoBuilder
  /\ result' = NoResult
  /\ native' = NoNative
  /\ ForgetEngine
  /\ ForgetRecord
  /\ UNCHANGED <<curl, readArgs, alive, cleanups, late, eng, ops, call, rejects>>

\* the engine passes body bytes to the write function with WRITEDATA
write_callback(p, size, nmemb, ub) ==
  LET resp == eng["WRITEDATA"]
      r == curl_write_fn(p, size, nmemb, resp, builder)
  IN /\ EngineRunning
     /\ eng["WRITEFUNCTION"] = "curl_write_fn"
     /\ ub \in BuilderUb(resp, r.use_ctx)
     /\ IF ub = "crash" THEN Crash
        ELSE /\ lastCb' = [fn |-> "write", ctx |-> resp, kind |-> "none",
                           ret |-> r.ret, use_buf |-> r.use_buf,
                           use_ctx |-> r.use_ctx]
             /\ writes' = writes + 1
             /\ chunks' = chunks \o p
             /\ builder' = IF ub = "miss" THEN builder ELSE r.builder
             /\ UNCHANGED <<curl, readArgs, alive, cleanups, late, eng, pc, ops, call,
                            bodyArg, headers, reads, readDone, aborted, result,
                            native, wireFailed, wired, readFailed, eofSeen,
                            rejects>>

\* an engine that has no header function but a header context passes header
\* lines to the write function, with HEADERDATA as its context
header_write_callback(p, size, nmemb, ub) ==
  LET resp == eng["HEADERDATA"]
      r == curl_write_fn(p, size, nmemb, resp, builder)
  IN /\ EngineRunning
     /\ eng["HEADERFUNCTION"] = "no_fn"
     /\ ~is_null(resp)
     /\ eng["WRITEFUNCTION"] = "curl_write_fn"
     /\ ub \in BuilderUb(resp, r.use_ctx)
     /\ IF ub = "crash" THEN Crash
        ELSE /\ lastCb' = [fn |-> "write", ctx |-> resp, kind |-> "none",
                           ret |-> r.ret, use_buf |-> r.use_buf,
                           use_ctx |-> r.use_ctx]
             /\ writes' = writes + 1
             /\ chunks' = chunks \o p
             /\ builder' = IF ub = "miss" THEN builder ELSE r.builder
             /\ UNCHANGED <<curl, readArgs, alive, cleanups, late, eng, pc, ops, call,
                            bodyArg, headers, reads, readDone, aborted, result,
                            native, wireFailed, wired, readFailed, eofSeen,
                            rejects>>

\* the engine's own write function: fwrite of size * nmemb bytes to the
\* context, which is WRITEDATA for body bytes and HEADERDATA for header lines;
\* no bridge runs
default_write(option, size, nmemb, ub) ==
  LET stream == eng[option] IN
  /\ EngineRunning
  /\ eng["WRITEFUNCTION"] = "default_fn"
  /\ option \in {"WRITEDATA", "HEADERDATA"}
  /\ option = "HEADERDATA" => (eng["HEADERFUNCTION"] = "no_fn" /\ ~is_null(stream))
  /\ ub \in FileUb(stream)
  /\ IF ub = "crash" THEN Crash
     ELSE /\ writes' = writes + 1
          /\ UNCHANGED <<curl, readArgs, alive, cleanups, late, eng, pc, ops, call,
                         bodyArg, builder, headers, reads, readDone, aborted,
                         result, native, wireFailed, wired, chunks, lastCb,
                         readFailed, eofSeen, rejects>>

\* the engine's own read function: fread of up to size * nmemb bytes from
\* READDATA, of which it gets len; no bridge runs, and a result of 0 ends the
\* reading
default_read(size, nmemb, len, ub) ==
  LET stream == eng["READDATA"] IN
  /\ EngineRunning
  /\ eng["READFUNCTION"] = "default_fn"
  /\ ~readDone
  /\ len \in 0..SizeMul(size, nmemb)
  /\ ub \in FileUb(stream)
  /\ IF ub = "crash" THEN Crash
     ELSE /\ reads' = reads + 1
          /\ readDone' = (len = 0)
          /\ UNCHANGED <<curl, readArgs, alive, cleanups, late, eng, pc, ops, call,
                         bodyArg, builder, writes, headers, aborted, result,
                         native, wireFailed, wired, chunks, lastCb, readFailed,
                         eofSeen, rejects>>

header_callback(p, size, nmemb, ub) ==
  LET resp == eng["HEADERDATA"]
      r == curl_header_fn(p, size, nmemb, resp, builder)
  IN /\ EngineRunning
     /\ eng["HEADERFUNCTION"] = "curl_header_fn"
     /\ ub \in BuilderUb(resp, r.use_ctx)
     /\ IF ub = "crash" THEN Crash
        ELSE /\ lastCb' = [fn |-> "header", ctx |-> resp, kind |-> "none",
                           ret |-> r.ret, use_buf |-> r.use_buf,
                           use_ctx |-> r.use_ctx]
             /\ headers' = headers + 1
             /\ builder' = IF ub = "miss" THEN builder ELSE r.builder
             /\ UNCHANGED <<curl, readArgs, alive, cleanups, late, eng, pc, ops, call,
                            bodyArg, writes, reads, readDone, aborted, result,
                            native, wireFailed, wired, chunks, readFailed, eofSeen,
                            rejects>>

read_callback(size, nmemb, outcome, ub) ==
  LET body == eng["READDATA"]
      r == curl_read_fn(size, nmemb, body, outcome)
  IN /\ EngineRunning
     /\ eng["READFUNCTION"] = "curl_read_fn"
     /\ ~readDone
     /\ ub \in BodyUb(body)
     /\ outcome \in (IF is_null(body) \/ ub = "crash" THEN {NoRead}
                     ELSE ReadOutcomes(SizeMul(size, nmemb)))
     /\ IF ub = "crash" THEN Crash
        ELSE /\ lastCb' = [fn |-> "read", ctx |-> body, kind |-> outcome.kind,
                           ret |-> r.ret, use_buf |-> r.use_buf,
                           use_ctx |-> r.use_ctx]
             /\ reads' = reads + 1
             /\ readDone' = (r.ret = 0)
             /\ aborted' = (r.ret = CURL_READFUNC_ABORT)
             /\ readFailed' = (readFailed \/ outcome.kind = "other")
             /\ eofSeen' = (eofSeen \/ outcome.kind = "eof")
             /\ UNCHANGED <<curl, readArgs, alive, cleanups, late, eng, pc, ops, call,
                            bodyArg, builder, writes, headers, result, native,
                            wireFailed, wired, chunks, rejects>>

(***************************************************************************)
(* Easy::perform, lines 68-79: curl_easy_perform returns, the result is    *)
(* tested, the status code is asked for and the builder is finalized or    *)
(* dropped.                                                                *)
(***************************************************************************)
perform_end(err, res, stored, v) ==
  /\ pc = "transfer"
  /\ pc' = "idle"
  /\ result' = perform_finish(builder, err, res, v)
  /\ native' = [setopt |-> NotCalled,
                perform |-> err,
                getinfo |-> IF is_success(err) THEN res ELSE NotCalled,
                status |-> IF is_success(err) /\ is_success(res) THEN stored
                           ELSE NotCalled]
  /\ builder' = NoBuilder
  /\ ForgetEngine
  /\ UNCHANGED <<curl, readArgs, alive, cleanups, late, eng, ops, call, bodyArg,
                 wireFailed, wired, chunks, readFailed, eofSeen, rejects>>

(***************************************************************************)
(* Easy::get_response_code called by the user                              *)
(***************************************************************************)
response_code_call(res, stored, v) ==
  /\ pc = "idle"
  /\ alive
  /\ ops < MaxOps
  /\ ops' = ops + 1
  /\ result' = get_response_code("get_response_code", res, v)
  /\ native' = [NoNative EXCEPT !.getinfo = res,
                                !.status = IF is_success(res) THEN stored
                                           ELSE NotCalled]
  /\ late' = (late \/ cleanups > 0)
  /\ ForgetRecord
  /\ UNCHANGED <<curl, readArgs, alive, cleanups, eng, pc, call, builder, rejects,
                 engineVars>>

(***************************************************************************)
(* Drop for Easy                                                           *)
(***************************************************************************)
drop_NoCleanup ==
  /\ pc = "idle"
  /\ alive
  /\ alive' = FALSE
  /\ result' = NoResult
  /\ native' = NoNative
  /\ ForgetRecord
  /\ UNCHANGED <<curl, readArgs, cleanups, late, eng, pc, ops, call, builder, rejects,
                 engineVars>>

drop ==
  /\ pc = "idle"
  /\ alive
  /\ alive' = FALSE
  /\ cleanups' = cleanups + 1
  /\ result' = NoResult
  /\ native' = NoNative
  /\ ForgetRecord
  /\ UNCHANGED <<curl, readArgs, late, eng, pc, ops, call, builder, rejects, engineVars>>

(***************************************************************************)
(* Specification                                                           *)
(***************************************************************************)
\* the caller may start an operation
CallerTurn == pc = "idle" /\ alive /\ ops < MaxOps

\* the result codes of perform's six configuration calls
WireCodes(h) == [1..6 -> SetoptCodes(h)]

\* the element counts with which the engine passes a line to the header bridge
LineCounts(p, size) == {nmemb \in 0..Len(p) : SizeMul(size, nmemb) = Len(p)}

Setopt ==
  /\ CallerTurn
  /\ \E option \in Opts, code \in SetoptCodes(curl) : setopt(option, code)

PerformBegin ==
  /\ CallerTurn
  /\ \E hasBody \in BOOLEAN, codes \in WireCodes(curl) :
       perform_begin(hasBody, codes)

WriteCallback ==
  /\ EngineRunning
  /\ eng["WRITEFUNCTION"] = "curl_write_fn"
  /\ \E size \in Sizes, nmemb \in Nmembs :
       \E ub \in BuilderUb(eng["WRITEDATA"], ~is_null(eng["WRITEDATA"])) :
         write_callback(EngineBuffer(SizeMul(size, nmemb), writes), size, nmemb, ub)

HeaderCallback ==
  /\ EngineRunning
  /\ eng["HEADERFUNCTION"] = "curl_header_fn"
  /\ \E p \in HeaderLines, size \in Sizes :
       \E nmemb \in LineCounts(p, size) :
         \E ub \in BuilderUb(eng["HEADERDATA"], parse(p).some) :
           header_callback(p, size, nmemb, ub)

HeaderWriteCallback ==
  /\ EngineRunning
  /\ eng["HEADERFUNCTION"] = "no_fn"
  /\ eng["WRITEFUNCTION"] = "curl_write_fn"
  /\ \E p \in HeaderLines, size \in Sizes :
       \E nmemb \in LineCounts(p, size) :
         \E ub \in BuilderUb(eng["HEADERDATA"], ~is_null(eng["HEADERDATA"])) :
           header_write_callback(p, size, nmemb, ub)

DefaultWrite ==
  /\ EngineRunning
  /\ eng["WRITEFUNCTION"] = "default_fn"
  /\ \E option \in {"WRITEDATA", "HEADERDATA"}, size \in Sizes, nmemb \in Nmembs :
       \E ub \in FileUb(eng[option]) : default_write(option, size, nmemb, ub)

DefaultRead ==
  /\ EngineRunning
  /\ eng["READFUNCTION"] = "default_fn"
  /\ \E size \in Sizes, nmemb \in Nmembs :
       \E len \in 0..SizeMul(size, nmemb), ub \in FileUb(eng["READDATA"]) :
         default_read(size, nmemb, len, ub)

ReadCallback ==
  /\ EngineRunning
  /\ eng["READFUNCTION"] = "curl_read_fn"
  /\ ~readDone
  /\ \E size \in Sizes, nmemb \in Nmembs :
       \E ub \in BodyUb(eng["READDATA"]) :
         \E outcome \in (IF is_null(eng["READDATA"]) \/ ub = "crash" THEN {NoRead}
                         ELSE ReadOutcomes(SizeMul(size, nmemb))) :
           read_callback(size, nmemb, outcome, ub)

\* what curl_easy_getinfo returns and stores after a call that returned err:
\* it is not called after a failed transfer, and stores nothing when it fails
QueryCodes(err) == IF is_success(err) THEN GetinfoCodes(curl) ELSE {NotCalled}
QueryValues(res) == IF is_success(res) THEN StatusValues ELSE {NotCalled}

\* what get_info_long reads from its local after the engine stored a value
\* in it, or stored nothing: the write goes through a pointer to an immutable
\* local, so the read gives the stored value or the 0 of the declaration
LocalReads(stored) == IF stored = NotCalled THEN {0} ELSE {0, stored}

PerformEnd ==
  /\ pc = "transfer"
  /\ \E err \in PerformCodes(curl, aborted) :
       \E res \in QueryCodes(err) :
         \E stored \in QueryValues(res) :
           \E v \in LocalReads(stored) : perform_end(err, res, stored, v)

GetResponseCode ==
  /\ CallerTurn
  /\ \E res \in GetinfoCodes(curl) :
       \E stored \in QueryValues(res) :
         \E v \in LocalReads(stored) : response_code_call(res, stored, v)

Drop == drop

Next ==
  \/ Setopt
  \/ PerformBegin
  \/ WriteCallback
  \/ HeaderCallback
  \/ ReadCallback
  \/ HeaderWriteCallback
  \/ DefaultWrite
  \/ DefaultRead
  \/ PerformEnd
  \/ GetResponseCode
  \/ Drop

Spec == Init /\ [][Next]_vars

(***************************************************************************)
(* The read bridge on its own.  curl_read_fn is an exported C function of  *)
(* its four arguments; this specification draws the arguments and the      *)
(* outcome of Body::read from sets that reach up to and past the value of  *)
(* CURL_READFUNC_ABORT, and applies the bridge once.                       *)
(***************************************************************************)
ReadSizes == {1, 2, CURL_READFUNC_ABORT, 2 * CURL_READFUNC_ABORT}
ReadNmembs == {0, 1, 2, 3}

\* lengths Body::read may report for a buffer of n bytes, sampled at both ends
\* and around CURL_READFUNC_ABORT
ReadLens(n) ==
  {len \in {0, 1, 2, n, CURL_READFUNC_ABORT - 1, CURL_READFUNC_ABORT,
            CURL_READFUNC_ABORT + 1} : len <= n}

ReadSamples(n) == {ReadOk(len) : len \in ReadLens(n)} \cup {ReadEof, ReadFailure}

ReadInputs ==
  UNION {{[size |-> size, nmemb |-> nmemb, body |-> body, outcome |-> outcome] :
            outcome \in (IF is_null(body) THEN {NoRead}
                         ELSE ReadSamples(SizeMul(size, nmemb)))} :
           size \in ReadSizes, nmemb \in ReadNmembs, body \in {NullPtr, BodyPtr(1)}}

InitRead == Constructed({ValidHandle}, ReadInputs)

read_apply ==
  LET a == readArgs
      r == curl_read_fn(a.size, a.nmemb, a.body, a.outcome)
  IN /\ lastCb = NoCb
     /\ lastCb' = [fn |-> "read", ctx |-> a.body, kind |-> a.outcome.kind,
                   ret |-> r.ret, use_buf |-> r.use_buf, use_ctx |-> r.use_ctx]
     /\ UNCHANGED <<curl, readArgs, alive, cleanups, late, eng, pc, ops, call,
                    bodyArg, builder, writes, headers, reads, readDone, aborted,
                    result, native, wireFailed, wired, chunks, readFailed,
                    eofSeen, rejects>>

NextRead == read_apply

SpecRead == InitRead /\ [][NextRead]_vars

(***************************************************************************)
(* Properties                                                              *)
(***************************************************************************)
PerformReturned == pc = "idle" /\ result.op = "perform"

\* the three callback bridges, as lastCb names them
Bridges == {"read", "write", "header"}

Failed(code) == code # NotCalled /\ ~is_success(code)

\* C1: when curl_easy_perform returns a failure code, perform returns exactly
\* that code as its error and no Response, whatever the write and header
\* bridges accumulated; the builder is gone, and no later operation gives the
\* caller a Response either.
C1_TransferFailureIsReturned ==
  /\ (PerformReturned /\ Failed(native.perform))
       => /\ result = Err("perform", native.perform)
          /\ ~result.has_resp
          /\ builder = NoBuilder
  /\ result.has_resp => (PerformReturned /\ is_success(native.perform))

\* a transfer that fed the bridges of a fully wired call and then failed
C1_Witness ==
  /\ PerformReturned
  /\ native.perform = COULDNT_CONNECT
  /\ wireFailed = {}
  /\ chunks # <<>>
  /\ result.tag = "Err"

\* C2: when the transfer succeeds and curl_easy_getinfo returns a failure code,
\* perform returns that code as its error and no Response.
C2_StatusQueryFailureIsReturned ==
  (PerformReturned /\ is_success(native.perform) /\ Failed(native.getinfo))
    => /\ result = Err("perform", native.getinfo)
       /\ ~result.has_resp

\* a successful, fully wired transfer with body bytes whose status query failed
C2_Witness ==
  /\ PerformReturned
  /\ native.perform = OK
  /\ native.getinfo = BAD_FUNCTION_ARGUMENT
  /\ wireFailed = {}
  /\ chunks # <<>>
  /\ result.tag = "Err"

\* C3: the body of the Response of a successful perform call is the
\* concatenation, in order, of the chunks the engine passed to the write bridge
\* during that call.
C3_BodyIsConcatenation ==
  (PerformReturned /\ result.tag = "Ok") => result.resp.body = chunks

\* the header mapping the claim expects after the header bridge got line p
HeadersAfter(h, p) ==
  LET pair == parse(p) IN
  IF ~pair.some THEN h
  ELSE [n \in DOMAIN h \cup {pair.name} |->
          IF n \in DOMAIN h
          THEN (IF n = pair.name THEN Append(h[n], pair.val) ELSE h[n])
          ELSE <<pair.val>>]

\* C4: every header-bridge invocation of a perform call with a line that parses
\* to (name, value) appends value to the sequence under name in the call's
\* header mapping (a new one-element sequence for a new name) and leaves the
\* other names alone; a line that does not parse leaves the mapping unchanged.
C4_HeadersAccumulate ==
  [][\A p \in HeaderLines, size \in Sizes, ub \in UbOutcomes :
       \A nmemb \in LineCounts(p, size) :
         header_callback(p, size, nmemb, ub)
           => builder'.hdrs = HeadersAfter(builder.hdrs, p)]_vars

\* C5: when the body source reports a failure other than end-of-stream, the
\* read bridge returns CURL_READFUNC_ABORT for that attempt, and the perform
\* call returns an error and no Response.
C5_ReadFailureAborts ==
  /\ (lastCb.fn = "read" /\ lastCb.kind = "other")
       => lastCb.ret = CURL_READFUNC_ABORT
  /\ (PerformReturned /\ readFailed)
       => (result.tag = "Err" /\ ~result.has_resp)

\* a perform call that returned after its body source failed
C5_Witness ==
  /\ PerformReturned
  /\ bodyArg
  /\ readFailed
  /\ result = Err("perform", ABORTED_BY_CALLBACK)

\* C6: when the body source reports end-of-stream the read bridge returns zero
\* for that attempt, the engine neither reads again in that transfer nor
\* cancels it.
C6_EofEndsReading ==
  [][/\ (lastCb'.fn = "read" /\ lastCb'.kind = "eof")
          => (lastCb'.ret = 0 /\ readDone' /\ ~aborted')
     /\ (pc = "transfer" /\ eofSeen /\ pc' = "transfer")
          => (reads' = reads /\ ~aborted')]_vars

\* a perform call whose body source reported end-of-stream and that succeeded
C6_Witness ==
  /\ PerformReturned
  /\ bodyArg
  /\ eofSeen
  /\ result.has_resp

\* C7: curl_easy_cleanup is called exactly once, when the handle is dropped,
\* whatever the perform calls before did, and no native call follows it.
C7_CleanupExactlyOnce ==
  /\ alive => cleanups = 0
  /\ ~alive => cleanups = 1
  /\ ~late

\* a handle dropped after two perform calls
C7_Witness ==
  /\ ~alive
  /\ cleanups = 1
  /\ call = 2

\* C8: a bridge invoked with a null context returns zero and touches neither
\* the buffer nor any builder or body source.
C8_NullContextDoesNothing ==
  (lastCb.fn \in Bridges /\ is_null(lastCb.ctx))
    => (lastCb.ret = 0 /\ ~lastCb.use_buf /\ ~lastCb.use_ctx)

\* C9: an operation during which a native configuration, transfer or query
\* call returned a failure code returns an error.
C9_NativeFailuresSurface ==
  (pc = "idle" /\ result.op # "none"
     /\ (wireFailed # {} \/ Failed(native.setopt) \/ Failed(native.perform)
           \/ Failed(native.getinfo)))
    => result.tag = "Err"

\* C10: when curl_easy_perform is invoked on a handle, the engine's read, write
\* and header callbacks are the three bridges, with the call's body source (or
\* null) and the call's ResponseBuilder as contexts, whatever setopt did before.
C10_WiringInPlace ==
  (pc = "transfer" /\ curl = ValidHandle)
    => eng = [o \in CallbackOpts |->
                CASE o = "READFUNCTION" -> "curl_read_fn"
                  [] o = "WRITEFUNCTION" -> "curl_write_fn"
                  [] o = "HEADERFUNCTION" -> "curl_header_fn"
                  [] o = "READDATA" -> IF bodyArg THEN BodyPtr(call) ELSE NullPtr
                  [] OTHER -> BuilderPtr(call)]

\* C11: perform returns a Response only when both curl_easy_perform and the
\* status query of that call succeeded; the Response's code is the value the
\* query gave, and its headers and body are those the header and write bridges
\* left in the call's builder.
C11_ResponseIsWhatTheCallProduced ==
  [][/\ result'.has_resp => (pc' = "idle" /\ result'.op = "perform")
     /\ (pc = "transfer" /\ pc' = "idle" /\ result'.has_resp)
          => /\ is_success(native'.perform)
             /\ is_success(native'.getinfo)
             /\ result'.resp.code = native'.status
             /\ result'.resp.hdrs = builder.hdrs
             /\ result'.resp.body = builder.body]_vars

RECURSIVE IsSubseq(_, _)
\* a is b with some elements left out
IsSubseq(a, b) ==
  IF a = <<>> THEN TRUE
  ELSE IF b = <<>> THEN FALSE
  ELSE IF Head(a) = Head(b) THEN IsSubseq(Tail(a), Tail(b))
  ELSE IsSubseq(a, Tail(b))

\* number of header values in a header mapping
NumValues(h) == Cardinality(UNION {{<<n, i>> : i \in 1..Len(h[n])} : n \in DOMAIN h})

\* C12: every perform call starts from a fresh ResponseBuilder (code zero, no
\* headers, empty body), so the Response of the k-th call holds only body
\* bytes and header values that the engine delivered during the k-th call.
C12_FreshBuilderPerCall ==
  [][/\ (pc = "idle" /\ pc' = "transfer")
          => builder' = [code |-> 0, hdrs |-> EmptyMap, body |-> <<>>]
     /\ (pc = "transfer" /\ pc' = "idle" /\ result'.has_resp)
          => /\ IsSubseq(result'.resp.body, chunks)
             /\ NumValues(result'.resp.hdrs) <= headers]_vars

\* the second perform call of a handle returned a Response with a header and
\* body bytes
C12_Witness ==
  /\ call = 2
  /\ PerformReturned
  /\ result.has_resp
  /\ result.resp.hdrs # EmptyMap
  /\ result.resp.body # <<>>

\* C13: when curl_easy_init returns null, Easy::new returns no handle, so no
\* setopt, perform, status query or cleanup is issued on a null native handle.
C13_NoCallOnNullHandle ==
  curl = NullHandle => (ops = 0 /\ cleanups = 0 /\ pc = "idle")

\* C14: the body source is referred to only while perform runs: once perform
\* has returned, with a Response or with an error, the engine configuration
\* the handle owns holds no context pointer to a body source.
C14_BodyBorrowEndsWithPerform ==
  pc = "idle" => \A o \in DataOpts : eng[o].kind # "body"

\* the configuration calls a perform call is to issue
BridgeWiring ==
  {<<"READFUNCTION", "curl_read_fn">>,
   <<"READDATA", IF bodyArg THEN BodyPtr(call) ELSE NullPtr>>,
   <<"WRITEFUNCTION", "curl_write_fn">>, <<"WRITEDATA", BuilderPtr(call)>>,
   <<"HEADERFUNCTION", "curl_header_fn">>, <<"HEADERDATA", BuilderPtr(call)>>}

\* perform issues n configuration calls, which request the three bridges and
\* their contexts, all before the transfer; the status code is asked for only
\* after the transfer returned success
WiringThenTransferThenQuery(n) ==
  /\ (pc = "transfer" \/ PerformReturned)
       => /\ Len(wired) = n
          /\ {wired[i] : i \in DOMAIN wired} = BridgeWiring
  /\ pc = "transfer" => (native.perform = NotCalled /\ native.getinfo = NotCalled)
  /\ (PerformReturned /\ native.getinfo # NotCalled) => is_success(native.perform)

\* C15 (as stated): on every perform call, perform issues four native
\* configuration calls that install the read, write and header bridges with
\* their context pointers, all before the native transfer, and asks for the
\* status code only after the transfer returned success.
C15_FourWiringCalls == WiringThenTransferThenQuery(4)

\* C15 (amended): on every perform call, perform issues six native
\* configuration calls, one for each of the three bridges and one for each of
\* their context pointers, all before the native transfer, and asks for the
\* status code only after the transfer returned success.
C15_SixWiringCalls == WiringThenTransferThenQuery(6)

\* the second perform call of a handle returned after its status query
C15_Witness ==
  /\ call = 2
  /\ PerformReturned
  /\ Len(wired) = 6
  /\ native.perform = OK
  /\ native.getinfo # NotCalled

\* C16: every invocation of the write bridge and of the header bridge with a
\* non-null context returns size * nmemb, which is the number of bytes it took
\* from the buffer (appended to the body, or handed to the header parser),
\* whether or not the header line parsed.  The buffer of a write step is the
\* one whose length the record of chunks grew by.
C16_BridgesReportWholeBuffer ==
  [][/\ (writes' = writes + 1 /\ ~is_null(eng["WRITEDATA"]))
          => \A size \in Sizes, nmemb \in Nmembs :
               (Len(chunks') = Len(chunks) + SizeMul(size, nmemb))
                 => \A ub \in BuilderUb(eng["WRITEDATA"], TRUE) \ {"crash"} :
                      write_callback(EngineBuffer(SizeMul(size, nmemb), writes),
                                     size, nmemb, ub)
                        => /\ lastCb'.ret = size * nmemb
                           /\ ub # "miss"
                                => Len(builder'.body) = Len(builder.body) + lastCb'.ret
     /\ (writes' = writes + 1 /\ eng["HEADERFUNCTION"] = "no_fn")
          => \A p \in HeaderLines, size \in Sizes :
               (Len(chunks') = Len(chunks) + Len(p))
                 => \A nmemb \in LineCounts(p, size) :
                      \A ub \in BuilderUb(eng["HEADERDATA"], TRUE) \ {"crash"} :
                        header_write_callback(p, size, nmemb, ub)
                          => /\ lastCb'.ret = size * nmemb
                             /\ ub # "miss"
                                  => Len(builder'.body) = Len(builder.body) + lastCb'.ret
     /\ (headers' = headers + 1 /\ ~is_null(eng["HEADERDATA"]))
          => \A p \in HeaderLines :
               (lastCb'.use_ctx = parse(p).some)
                 => \A size \in Sizes :
                      \A nmemb \in LineCounts(p, size) :
                        \A ub \in BuilderUb(eng["HEADERDATA"], parse(p).some) \ {"crash"} :
                          header_callback(p, size, nmemb, ub)
                            => /\ lastCb'.ret = size * nmemb
                               /\ lastCb'.ret = Len(p)]_vars

\* the header bridge returned from a line that did not parse, with a non-null
\* context
C16_Witness ==
  /\ lastCb.fn = "header"
  /\ ~is_null(lastCb.ctx)
  /\ ~lastCb.use_ctx
  /\ lastCb.ret = 2

\* the read bridge returns n for a successful read of n bytes, n being at most
\* size * nmemb
ReadReturnsLength ==
  (lastCb.fn = "read" /\ lastCb.kind = "ok")
    => /\ lastCb.ret = readArgs.outcome.len
       /\ lastCb.ret <= readArgs.size * readArgs.nmemb

\* C17 (as stated): for every size, nmemb and outcome of Body::read, the read
\* bridge returns CURL_READFUNC_ABORT only when the body source reported a
\* failure other than end-of-stream; a successful read of n bytes returns n,
\* with n at most size * nmemb and n different from CURL_READFUNC_ABORT.
C17_AbortOnlyOnFailure ==
  /\ ReadReturnsLength
  /\ (lastCb.fn = "read" /\ lastCb.ret = CURL_READFUNC_ABORT)
       => lastCb.kind = "other"
  /\ (lastCb.fn = "read" /\ lastCb.kind = "ok")
       => lastCb.ret # CURL_READFUNC_ABORT

\* C17 (amended): the read bridge returns CURL_READFUNC_ABORT only when the
\* body source reported a failure other than end-of-stream, or when a
\* successful read delivered exactly CURL_READFUNC_ABORT bytes, which takes a
\* buffer of at least that size; a successful read of n bytes returns n, with
\* n at most size * nmemb, and n differs from CURL_READFUNC_ABORT whenever
\* size * nmemb is below CURL_READFUNC_ABORT.
C17_AbortOnFailureOrSentinelLength ==
  /\ ReadReturnsLength
  /\ (lastCb.fn = "read" /\ lastCb.ret = CURL_READFUNC_ABORT)
       => \/ lastCb.kind = "other"
          \/ /\ lastCb.kind = "ok"
             /\ readArgs.outcome.len = CURL_READFUNC_ABORT
             /\ readArgs.size * readArgs.nmemb >= CURL_READFUNC_ABORT
  /\ (/\ lastCb.fn = "read"
      /\ lastCb.kind = "ok"
      /\ readArgs.size * readArgs.nmemb < CURL_READFUNC_ABORT)
       => lastCb.ret # CURL_READFUNC_ABORT

\* a successful read of exactly CURL_READFUNC_ABORT bytes has returned
C17_Witness ==
  /\ lastCb.fn = "read"
  /\ lastCb.kind = "ok"
  /\ readArgs.outcome.len = CURL_READFUNC_ABORT
  /\ lastCb.ret = CURL_READFUNC_ABORT

\* C18: no bridge is invoked with a context pointer to the ResponseBuilder or
\* the body source of an earlier perform call that has returned, also when a
\* configuration call of the current perform was rejected and left the
\* engine's previous context in place.
C18_NoStaleContext ==
  (lastCb.fn \in Bridges /\ lastCb.ctx.kind \in {"builder", "body"})
    => lastCb.ctx.id = call

====
